---------------------------- MODULE Spec2Model ----------------------------
(***************************************************************************)
(* FanzDash central command: the health-monitoring aggregator and the      *)
(* control-plane state machine of src/fanz_central_command.py and          *)
(* src/system_integration.py.                                              *)
(*                                                                         *)
(* Every coroutine is a task with a frame; a task takes one step per       *)
(* stretch of code between two suspension points (await), so the steps of  *)
(* different tasks interleave exactly where asyncio can switch tasks.      *)
(* External collaborators (the monitored endpoints, PostgreSQL, the stub   *)
(* probes of the payment and moderation loops) answer nondeterministically.*)
(***************************************************************************)
EXTENDS Naturals, Sequences, FiniteSets, TLC

\* ------------------------------------------------------------------ bounds

\* How many entries of the platform registry the model monitors (the last
\* ones of the dict, so that the only non-critical platform is among them).
NPlatforms == 2

\* How many entries of SystemIntegration.services the model probes (the last
\* ones of the dict: payment_orchestration is critical, recommendation_service
\* is not).
NServices == 2

\* Rows the audit_logs table can take before further inserts are refused by
\* the model (the table itself is unbounded).
MaxAudit == 3

\* Administrative calls made in one behaviour, over all clients.
MaxCalls == 2

\* Health checks the clock tells apart: the number of the running check
\* stands for datetime.utcnow() during that check, and checks after the
\* MaxChecks-th carry the number MaxChecks.
MaxChecks == 2

\* Pools counted one by one; db_pools = MaxPools stands for MaxPools or more.
MaxPools == 2

\* ------------------------------------------------------- program constants

\* fanz_central_command.py:188, queue_stats["pending_reviews"] > 100
ModerationAlertThreshold == 100

\* system_integration.py:59, str(e)[:100]
ErrorTextLimit == 100

\* fanz_central_command.py:306, get_recent_audit_logs(limit=50)
RecentAuditLimit == 50

\* get_audit_logs: limit: int = 100
AdminAuditLimit == 100

\* ---------------------------------------------------------------- registry

\* FanzCentralCommand.__init__: self.platforms, in insertion order.
Registry ==
    << [id |-> "fanzdash",      name |-> "FanzDash Control", critical |-> TRUE],
       [id |-> "fanzfinance",   name |-> "FanzFinance OS",   critical |-> TRUE],
       [id |-> "fanzelitetube", name |-> "FanzEliteTubeV1",  critical |-> TRUE],
       [id |-> "fanzmeet",      name |-> "FanzMeetV1",       critical |-> TRUE],
       [id |-> "fanzcommerce",  name |-> "FanzCommerceV1",   critical |-> TRUE],
       [id |-> "fanzhubvault",  name |-> "FanzHubVaultV1",   critical |-> TRUE],
       [id |-> "fanzprotect",   name |-> "FanzProtect",      critical |-> TRUE],
       [id |-> "fanzsocial",    name |-> "FanzSocial",       critical |-> FALSE] >>

\* The monitored part of the registry, in iteration order.
PlatformOrder == SubSeq(Registry, Len(Registry) - NPlatforms + 1, Len(Registry))

PlatformIds == { PlatformOrder[i].id : i \in 1..Len(PlatformOrder) }

\* SystemIntegration.__init__: self.services, in insertion order.
Services ==
    << [service |-> "main_app",               critical |-> TRUE],
       [service |-> "api_gateway",            critical |-> TRUE],
       [service |-> "user_service",           critical |-> TRUE],
       [service |-> "payment_service",        critical |-> TRUE],
       [service |-> "messaging_service",      critical |-> FALSE],
       [service |-> "streaming_service",      critical |-> FALSE],
       [service |-> "ai_service",             critical |-> FALSE],
       [service |-> "sso_service",            critical |-> FALSE],
       [service |-> "payment_orchestration",  critical |-> TRUE],
       [service |-> "recommendation_service", critical |-> FALSE] >>

\* The monitored part of self.services, in iteration order: the services
\* registered just before the last one, which end with a critical service
\* registered after a non-critical one.
ServiceOrder == SubSeq(Services, Len(Services) - NServices, Len(Services) - 1)

\* FanzCentralCommand.__init__: self.payment_processors, in insertion order
\* (every processor is enabled).
PaymentProcessors == << "ccbill", "paxum", "segpay", "crypto_usdc" >>

\* ------------------------------------------------------------------ inputs

\* What one HTTP probe can come back with: status 200, another status, or an
\* exception (connection refused, timeout, any transport error).
ProbeKinds == { "ok200", "non200", "exc" }

\* Lengths of str(e) for the exceptions a probe raises.
ErrorLengths == { 250 }

\* A probe's outcome: its kind and, for an exception, the length of its text.
ProbeOutcomes ==
    { [kind |-> "ok200", errlen |-> 0], [kind |-> "non200", errlen |-> 0] }
    \cup { [kind |-> "exc", errlen |-> n] : n \in ErrorLengths }

\* What one audit write can come back with: the row inserted, asyncpg.connect
\* raising, or conn.execute raising.
AuditOutcomes == { "ok", "connect_failed", "insert_failed" }

\* Arguments the administrative operations are called with.  Neither argument
\* is restricted by the code, so both may hold the ":" of the flag key.
PlatformInputs == PlatformIds \cup { "unknown-id", "fanzprotect:beta" }
FeatureInputs  == { "chat", "beta:chat" }
\* reason of set_feature_flag (its default is "") and of emergency_stop_platform
FlagReasonInputs == { "", "rollout" }
StopReasonInputs == { "incident" }

\* Pending-review counts the moderation queue reports.
PendingInputs == { 45, ModerationAlertThreshold, ModerationAlertThreshold + 1, 150 }

\* ----------------------------------------------------------------- tasks

Clients == { "c1", "c2" }
Loops   == { "health", "payment", "moderation" }
Owners  == Clients \cup { "health" }

None == [none |-> TRUE]

VARIABLES
    platforms,        \* self.platforms: id -> [status, last_health_check]
    feature_flags,    \* self.feature_flags: flag_key -> record
    emergency_stops,  \* self.emergency_stops: platform_id -> record
    audit_logs,       \* the audit_logs table, oldest row first
    checks_started,   \* health checks started so far (the model's clock)
    db_pools,         \* pools init_db has created, none of which is closed
    admin_db,         \* AdminService's database: committed rows, Session's view
    call,             \* per client: the frame of its administrative call
    hc,               \* per owner: the frame of run_ecosystem_health_check
    loop              \* per monitor loop: the frame of its while-True body

vars == << platforms, feature_flags, emergency_stops, audit_logs,
           checks_started, db_pools, admin_db, call, hc, loop >>


\* ------------------------------------------------------------ audit trail

\* One row of audit_logs as log_audit_action inserts it.
AuditRow(actor_id, action, target_type, target_id, metadata) ==
    [ actor_id |-> actor_id, action |-> action, target_type |-> target_type,
      target_id |-> target_id, metadata |-> metadata ]

\* Fault variant: the insert is issued twice.
LogAuditActionTwice(table, row, outcome) ==
    IF outcome = "ok" THEN Append(Append(table, row), row) ELSE table

\* log_audit_action: connect, insert, close inside try/except Exception; a
\* failure is logged and swallowed, the table is left as it was.
LogAuditAction(table, row, outcome) ==
    IF outcome = "ok" THEN Append(table, row) ELSE table

\* The outcomes an audit write can have in the current state: an insert needs
\* room in the modelled table.
AuditOutcomesNow ==
    IF Len(audit_logs) < MaxAudit THEN AuditOutcomes ELSE AuditOutcomes \ { "ok" }

\* log_audit_action: whether the connection it opened can still be open when
\* it returns.  conn.close() is the last statement of the try body: when
\* conn.execute raises it is skipped, and the connection stays open until the
\* garbage collector finalises the object, at once or later.
StillOpen(outcome) ==
    IF outcome = "insert_failed" THEN BOOLEAN ELSE { FALSE }

\* ---------------------------------------------------------- control plane

\* set_feature_flag: flag_key = f"{platform_id}:{feature}"
FlagKey(platform_id, feature) == platform_id \o ":" \o feature

\* set_feature_flag: the stored record.
FlagRecord(enabled, reason, now) ==
    [ enabled |-> enabled, set_at |-> now, reason |-> reason ]

\* emergency_stop_platform: the stored record.
StopRecord(reason, now) ==
    [ stopped_at |-> now, reason |-> reason, stopped_by |-> "FANZDASH_CENTRAL" ]

\* Fault variant: no platform id is rejected.
NoPlatformCheck(platform_id) == FALSE

\* emergency_stop_platform: platform_id not in self.platforms
UnknownPlatform(platform_id) == platform_id \notin PlatformIds

\* dict[key] = value
Put(map, key, value) == [ k \in DOMAIN map \cup { key } |->
                            IF k = key THEN value ELSE map[k] ]

\* The frame of a client with no call yet.
IdleCall ==
    [ op |-> "none", pc |-> "idle", n |-> 0, platform_id |-> "", feature |-> "",
      enabled |-> FALSE, reason |-> "", result |-> "none",
      audit |-> "none", logged |-> 0, follows |-> None, probes |-> << >>,
      service_probes |-> << >>, report |-> None, snapshot |-> None,
      limit |-> 0, action |-> "", target_type |-> "", logs |-> << >>,
      moderator_id |-> "", queue_item_id |-> "", notes |-> "" ]

\* The frame of a monitor loop whose task has been created and has not run:
\* pc is where the task is suspended, last is how the cycle in progress (or
\* just over) ended, after_error whether the cycle before it ended in an
\* (cancel: whether task.cancel() has been called on the task; conn_open:
\* whether a database connection the cycle opened may still be open)
\* exception, storm whether what the loop calls raises in every cycle.
NewLoop ==
    [ pc |-> "new", last |-> "none", after_error |-> FALSE, storm |-> FALSE,
      cancel |-> FALSE, conn_open |-> FALSE,
      idx |-> 1, stats |-> None, audit |-> "none", alerts |-> 0,
      issues |-> << >> ]

\* A client may start a call when it has none in flight.
RECURSIVE CallsMade(_)
CallsMade(clients) ==
    IF clients = { } THEN 0
    ELSE LET c == CHOOSE x \in clients : TRUE
         IN  call[c].n + CallsMade(clients \ { c })

CanCall(c) == call[c].pc \in { "idle", "done" } /\ CallsMade(Clients) < MaxCalls

\* The frame of the next call of client c, before its arguments are known.
NewCall(c) == [IdleCall EXCEPT !.n = call[c].n + 1]

\* Fault variant: a flag that is already stored is kept (first write wins).
SetFeatureFlagKeepsFirst(c) ==
    /\ CanCall(c)
    /\ \E p \in PlatformInputs, f \in FeatureInputs,
          e \in BOOLEAN, r \in FlagReasonInputs :
          /\ feature_flags' =
                IF FlagKey(p, f) \in DOMAIN feature_flags THEN feature_flags
                ELSE Put(feature_flags, FlagKey(p, f),
                         FlagRecord(e, r, checks_started))
          /\ call' = [call EXCEPT ![c] =
                        [NewCall(c) EXCEPT !.op = "set_feature_flag",
                                         !.pc = "audit", !.platform_id = p,
                                         !.feature = f, !.enabled = e,
                                         !.reason = r]]
    /\ UNCHANGED << platforms, emergency_stops, audit_logs, checks_started,
                    db_pools, admin_db, hc, loop >>

\* Fault variant: the audit write is awaited before the flag is stored.
SetFeatureFlagAfterAudit(c) ==
    /\ CanCall(c)
    /\ \E p \in PlatformInputs, f \in FeatureInputs,
          e \in BOOLEAN, r \in FlagReasonInputs :
          call' = [call EXCEPT ![c] =
                     [NewCall(c) EXCEPT !.op = "set_feature_flag",
                                      !.pc = "audit", !.platform_id = p,
                                      !.feature = f, !.enabled = e,
                                      !.reason = r]]
    /\ UNCHANGED << platforms, feature_flags, emergency_stops, audit_logs,
                    checks_started, db_pools, admin_db, hc, loop >>

\* set_feature_flag up to its first await: the flag is stored, the audit
\* write is pending.  No check of platform_id is made.
SetFeatureFlag(c) ==
    /\ CanCall(c)
    /\ \E p \in PlatformInputs, f \in FeatureInputs,
          e \in BOOLEAN, r \in FlagReasonInputs :
          /\ feature_flags' = Put(feature_flags, FlagKey(p, f),
                                  FlagRecord(e, r, checks_started))
          /\ call' = [call EXCEPT ![c] =
                        [NewCall(c) EXCEPT !.op = "set_feature_flag",
                                         !.pc = "audit", !.platform_id = p,
                                         !.feature = f, !.enabled = e,
                                         !.reason = r]]
    /\ UNCHANGED << platforms, emergency_stops, audit_logs, checks_started,
                    db_pools, admin_db, hc, loop >>

\* Fault variant: a new stop replaces the stops that were stored.
EmergencyStopPlatformAlone(c) ==
    /\ CanCall(c)
    /\ \E p \in PlatformInputs, r \in StopReasonInputs :
          LET frame == [NewCall(c) EXCEPT !.op = "emergency_stop",
                                        !.platform_id = p, !.reason = r]
          IN  IF UnknownPlatform(p)
              THEN /\ call' = [call EXCEPT ![c] =
                                 [frame EXCEPT !.pc = "done",
                                               !.result = "ValueError"]]
                   /\ UNCHANGED emergency_stops
              ELSE /\ emergency_stops' =
                         Put(<< >>, p, StopRecord(r, checks_started))
                   /\ call' = [call EXCEPT ![c] = [frame EXCEPT !.pc = "audit"]]
    /\ UNCHANGED << platforms, feature_flags, audit_logs, checks_started,
                    db_pools, admin_db, hc, loop >>

\* emergency_stop_platform up to its first await: ValueError for a platform
\* that is not registered, else the stop is stored and the audit write is
\* pending.
EmergencyStopPlatform(c) ==
    /\ CanCall(c)
    /\ \E p \in PlatformInputs, r \in StopReasonInputs :
          LET frame == [NewCall(c) EXCEPT !.op = "emergency_stop",
                                        !.platform_id = p, !.reason = r]
          IN  IF UnknownPlatform(p)
              THEN /\ call' = [call EXCEPT ![c] =
                                 [frame EXCEPT !.pc = "done",
                                               !.result = "ValueError"]]
                   /\ UNCHANGED emergency_stops
              ELSE /\ emergency_stops' =
                         Put(emergency_stops, p, StopRecord(r, checks_started))
                   /\ call' = [call EXCEPT ![c] = [frame EXCEPT !.pc = "audit"]]
    /\ UNCHANGED << platforms, feature_flags, audit_logs, checks_started,
                    db_pools, admin_db, hc, loop >>

\* The row the pending audit write of a control call inserts.
ControlAuditRow(frame) ==
    IF frame.op = "set_feature_flag"
    THEN AuditRow("FANZDASH_CENTRAL", "feature_flag_changed", "feature",
                  FlagKey(frame.platform_id, frame.feature),
                  [ enabled |-> frame.enabled, reason |-> frame.reason ])
    ELSE AuditRow("FANZDASH_CENTRAL", "emergency_stop", "platform",
                  frame.platform_id, [ reason |-> frame.reason ])

\* Fault variant: a failed audit write is not swallowed; the call raises and
\* takes its record back.
ControlAuditRaises(c) ==
    /\ call[c].pc = "audit"
    /\ call[c].op \in { "set_feature_flag", "emergency_stop" }
    /\ \E outcome \in AuditOutcomesNow :
          /\ audit_logs' = LogAuditAction(audit_logs, ControlAuditRow(call[c]),
                                          outcome)
          /\ call' = [call EXCEPT ![c].pc = "done",
                                  ![c].result = IF outcome = "ok" THEN "ok"
                                                ELSE "error",
                                  ![c].audit = outcome,
                                  ![c].logged = Len(audit_logs') - Len(audit_logs)]
          /\ feature_flags' =
                IF outcome # "ok" /\ call[c].op = "set_feature_flag"
                THEN [ k \in DOMAIN feature_flags
                         \ { FlagKey(call[c].platform_id, call[c].feature) }
                       |-> feature_flags[k] ]
                ELSE feature_flags
          /\ emergency_stops' =
                IF outcome # "ok" /\ call[c].op = "emergency_stop"
                THEN [ k \in DOMAIN emergency_stops \ { call[c].platform_id }
                       |-> emergency_stops[k] ]
                ELSE emergency_stops
    /\ UNCHANGED << platforms, checks_started, db_pools, admin_db, hc, loop >>

\* The audit write of set_feature_flag / emergency_stop_platform, after which
\* the call returns to its caller.
ControlAudit(c) ==
    /\ call[c].pc = "audit"
    /\ call[c].op \in { "set_feature_flag", "emergency_stop" }
    /\ \E outcome \in AuditOutcomesNow :
          /\ audit_logs' = LogAuditAction(audit_logs, ControlAuditRow(call[c]),
                                          outcome)
          /\ call' = [call EXCEPT ![c].pc = "done", ![c].result = "ok",
                                  ![c].audit = outcome,
                                  ![c].logged = Len(audit_logs') - Len(audit_logs)]
    /\ UNCHANGED << platforms, feature_flags, emergency_stops, checks_started,
                    db_pools, admin_db, hc, loop >>


\* ------------------------------------------- SystemIntegration (TaskSpark 3)

Min(a, b) == IF a <= b THEN a ELSE b

\* Fault variant: a non-success response is reported as "degraded".
CheckServiceHealthDegraded(svc, outcome) ==
    IF outcome.kind = "exc"
    THEN [ service |-> svc.service, status |-> "down",
           critical |-> svc.critical, response_code |-> 0,
           error_chars |-> Min(outcome.errlen, ErrorTextLimit) ]
    ELSE [ service |-> svc.service,
           status |-> IF outcome.kind = "ok200" THEN "healthy" ELSE "degraded",
           critical |-> svc.critical,
           response_code |-> IF outcome.kind = "ok200" THEN 200 ELSE 503,
           error_chars |-> 0 ]

\* check_service_health: one probe, every exception caught.
CheckServiceHealth(svc, outcome) ==
    IF outcome.kind = "exc"
    THEN [ service |-> svc.service, status |-> "down",
           critical |-> svc.critical, response_code |-> 0,
           error_chars |-> Min(outcome.errlen, ErrorTextLimit) ]
    ELSE [ service |-> svc.service,
           status |-> IF outcome.kind = "ok200" THEN "healthy" ELSE "unhealthy",
           critical |-> svc.critical,
           response_code |-> IF outcome.kind = "ok200" THEN 200 ELSE 503,
           error_chars |-> 0 ]

\* run_full_health_check: critical_services_up
CriticalServicesUp(service_checks) ==
    \A i \in 1..Len(service_checks) :
        /\ service_checks[i].status \in { "healthy", "down" }
        /\ ~(service_checks[i].critical /\ service_checks[i].status = "down")

\* sum(1 for s in service_checks if s["status"] == "healthy")
HealthyServices(service_checks) ==
    Cardinality({ i \in 1..Len(service_checks) :
                    service_checks[i].status = "healthy" })

\* round(healthy / total * 100, 2), in hundredths of a percent.
Percentage(healthy, total) == (20000 * healthy + total) \div (2 * total)

\* The messages of generate_recommendations for the down services, in the
\* order of service_checks.
RECURSIVE DownRecommendations(_)
DownRecommendations(service_checks) ==
    IF service_checks = << >> THEN << >>
    ELSE LET s == Head(service_checks)
             rest == DownRecommendations(Tail(service_checks))
         IN  IF s.status = "down"
             THEN << [ level |-> IF s.critical THEN "CRITICAL" ELSE "Warning",
                       about |-> s.service ] >> \o rest
             ELSE rest

\* Fault variant: the messages as collected, without the closing default.
GenerateRecommendationsAsCollected(service_checks, db_health) ==
    DownRecommendations(service_checks)
    \o (IF db_health.status # "healthy"
        THEN << [ level |-> "CRITICAL", about |-> "database" ] >>
        ELSE << >>)
    \o (IF HealthyServices(service_checks) = Len(service_checks)
        THEN << [ level |-> "OK", about |-> "all services operational" ] >>
        ELSE << >>)

\* generate_recommendations
GenerateRecommendations(service_checks, db_health) ==
    LET recommendations ==
            DownRecommendations(service_checks)
            \o (IF db_health.status # "healthy"
                THEN << [ level |-> "CRITICAL", about |-> "database" ] >>
                ELSE << >>)
            \o (IF HealthyServices(service_checks) = Len(service_checks)
                THEN << [ level |-> "OK", about |-> "all services operational" ] >>
                ELSE << >>)
    IN  IF recommendations # << >> THEN recommendations
        ELSE << [ level |-> "OK", about |-> "system operating normally" ] >>

\* run_full_health_check over the configured services, once the pool exists
\* and ensure_default_data has returned: the report computed from the probes
\* and the database check.  The percentage is a division by the number of
\* services checked.
FullHealthReport(services, outcomes, db_status) ==
    LET service_checks ==
            [ i \in 1..Len(services) |->
                CheckServiceHealth(services[i], outcomes[i]) ]
        db_health == [ status |-> db_status ]
        healthy == HealthyServices(service_checks)
        total == Len(service_checks)
    IN  [ overall_status |-> IF CriticalServicesUp(service_checks)
                             THEN "operational" ELSE "degraded",
          services |-> [ healthy |-> healthy, total |-> total,
                         percentage |-> Percentage(healthy, total),
                         details |-> service_checks ],
          database |-> db_health,
          recommendations |-> GenerateRecommendations(service_checks, db_health) ]

\* run_full_health_check of the SystemIntegration that FanzCentralCommand
\* holds.
RunFullHealthCheck(outcomes, db_status) ==
    FullHealthReport(ServiceOrder, outcomes, db_status)

\* What self.services can hold when run_full_health_check is called on a
\* SystemIntegration of its own: the configured services, down to none.
ServiceSets == { SubSeq(ServiceOrder, 1, n) : n \in 0..Len(ServiceOrder) }

\* system_integration.main: run_full_health_check is awaited on a
\* SystemIntegration and its report is printed.  With no service to check,
\* healthy_services / total_services raises ZeroDivisionError, which nothing
\* catches.  The SystemIntegration of main is its own object in its own
\* process: its pool is not one of the command center's db_pools.
IntegrationMain(c) ==
    /\ CanCall(c)
    /\ \E services \in ServiceSets, db_status \in { "healthy", "unhealthy" } :
          \E outcomes \in [1..Len(services) -> ProbeOutcomes] :
              call' = [call EXCEPT ![c] =
                         [NewCall(c) EXCEPT
                            !.op = "integration_main",
                            !.pc = "done",
                            !.service_probes = outcomes,
                            !.result = IF services = << >>
                                       THEN "ZeroDivisionError" ELSE "ok",
                            !.report = IF services = << >> THEN None
                                       ELSE FullHealthReport(services, outcomes,
                                                             db_status)]]
    /\ UNCHANGED << platforms, feature_flags, emergency_stops, audit_logs,
                    checks_started, db_pools, admin_db, hc, loop >>


\* --------------------------------------------- run_ecosystem_health_check

\* The locals of run_ecosystem_health_check before it is called.
IdleCheck ==
    [ pc |-> "idle", run |-> 0, idx |-> 1, outcomes |-> << >>,
      service_outcomes |-> << >>, platform_health |-> << >>,
      critical_issues |-> << >>, conn_open |-> FALSE ]

\* run_ecosystem_health_check up to its first await (the first probe).
BeginCheck(run) == [IdleCheck EXCEPT !.pc = "probe", !.run = run]

\* datetime.utcnow() of the next health check (the clock stops at MaxChecks).
NextRun == Min(checks_started + 1, MaxChecks)

\* platform.status after a probe.
PlatformStatus(kind) ==
    CASE kind = "ok200"  -> "healthy"
      [] kind = "non200" -> "degraded"
      [] OTHER           -> "down"

\* f"{platform.name} is degraded" / f"{platform.name} is down: {str(e)}":
\* the platform, the state and the length of the error text in the message.
Issue(p, outcome) ==
    [ name |-> p.name,
      state |-> PlatformStatus(outcome.kind),
      error_chars |-> outcome.errlen ]

\* The entry of platform_health for p, read from the shared platform object.
HealthEntry(p, platform) ==
    [ name |-> p.name, status |-> platform.status, critical |-> p.critical,
      last_check |-> platform.last_health_check ]

\* Lines 107-112 and the step to the next platform: the frame after the entry
\* of p has been stored.
Recorded(frame, p, plats) ==
    [frame EXCEPT !.platform_health = Put(@, p.id, HealthEntry(p, plats[p.id])),
                  !.idx = @ + 1,
                  !.pc = IF frame.idx + 1 > Len(PlatformOrder)
                         THEN "ts3" ELSE "probe"]

\* ecosystem_status = "healthy" if not critical_issues else "critical"
EcosystemStatus(critical_issues) ==
    IF critical_issues = << >> THEN "healthy" ELSE "critical"

\* health_report
HealthReport(frame, ts3_health) ==
    [ timestamp |-> frame.run,
      ecosystem_status |-> EcosystemStatus(frame.critical_issues),
      platforms |-> frame.platform_health,
      taskspark3_services |-> ts3_health,
      critical_issues |-> frame.critical_issues ]

\* The caller of a health check that has returned (ok) or raised: a direct
\* call returns, the dashboard goes on to fetch the audit rows.
CallAfterCheck(frame, ok, check, report) ==
    IF ~ok
    THEN [frame EXCEPT !.pc = "done", !.result = "error",
                       !.probes = check.outcomes]
    ELSE [frame EXCEPT !.pc = IF frame.op = "dashboard"
                              THEN "fetch_logs" ELSE "done",
                       !.result = IF frame.op = "dashboard" THEN @ ELSE "ok",
                       !.probes = check.outcomes,
                       !.service_probes = check.service_outcomes,
                       !.report = report]

\* Fault variant: the exception of a cycle is not caught and ends the task.
CycleErrorEscapes(frame) == [frame EXCEPT !.pc = "ended", !.last = "error"]

\* except Exception as e: the error is logged, the loop goes to its sleep.
CatchCycleError(frame) == [frame EXCEPT !.pc = "sleep", !.last = "error"]

\* Fault variant: the coroutine returns after a cycle that went well.
EndCycleReturns(frame) == [frame EXCEPT !.pc = "ended", !.last = "ok"]

\* The try body ended without an exception; the loop goes to its sleep.
EndCycle(frame) == [frame EXCEPT !.pc = "sleep", !.last = "ok"]

\* Fault variant: the alert is raised after every health check that returned.
LoopAfterCheckAlertsAlways(frame, ok, report) ==
    IF ~ok THEN CatchCycleError(frame)
    ELSE [frame EXCEPT !.pc = "alert", !.issues = report.critical_issues]

\* continuous_health_monitoring after its health check: an exception is
\* caught and the loop sleeps; critical issues are alerted first.
LoopAfterCheck(frame, ok, report) ==
    IF ~ok THEN CatchCycleError(frame)
    ELSE IF report.critical_issues # << >>
         THEN [frame EXCEPT !.pc = "alert", !.issues = report.critical_issues]
         ELSE EndCycle(frame)

\* The owner's frames once its health check has returned or raised.
Resume(o, ok, check, report) ==
    /\ call' = IF o \in Clients
               THEN [call EXCEPT ![o] = CallAfterCheck(@, ok, check, report)]
               ELSE call
    /\ loop' = IF o \in Loops
               THEN [loop EXCEPT ![o] =
                       LoopAfterCheck([@ EXCEPT !.conn_open = check.conn_open],
                                      ok, report)]
               ELSE loop

\* Fault variant: the exception of a probe is not caught; it ends the health
\* check and reaches the owner.
ProbePlatformRaises(o) ==
    /\ hc[o].pc = "probe"
    /\ \E outcome \in ProbeOutcomes :
          LET p == PlatformOrder[hc[o].idx]
              probed == [hc[o] EXCEPT !.outcomes = Append(@, outcome)]
          IN  IF outcome.kind = "exc"
              THEN /\ hc' = [hc EXCEPT ![o] = IdleCheck]
                   /\ Resume(o, FALSE, probed, None)
                   /\ UNCHANGED platforms
              ELSE /\ platforms' =
                         [platforms EXCEPT ![p.id] =
                            [ status |-> PlatformStatus(outcome.kind),
                              last_health_check |->
                                  IF outcome.kind = "ok200" THEN hc[o].run
                                  ELSE @.last_health_check ]]
                   /\ hc' = [hc EXCEPT ![o] =
                               [probed EXCEPT
                                  !.pc = "record",
                                  !.critical_issues =
                                      IF p.critical /\ outcome.kind # "ok200"
                                      THEN Append(@, Issue(p, outcome)) ELSE @]]
                   /\ UNCHANGED << call, loop >>
    /\ UNCHANGED << feature_flags, emergency_stops, audit_logs, checks_started,
                    db_pools, admin_db >>

\* One iteration of the for loop over self.platforms: the probe answers, the
\* shared platform object is updated, a critical failure is noted.  After an
\* exception the entry is stored at once; otherwise the two context managers
\* are left first (a suspension point) and the entry is stored afterwards.
ProbePlatform(o) ==
    /\ hc[o].pc = "probe"
    /\ \E outcome \in ProbeOutcomes :
          LET p == PlatformOrder[hc[o].idx]
              after == [platforms EXCEPT ![p.id] =
                          [ status |-> PlatformStatus(outcome.kind),
                            last_health_check |->
                                IF outcome.kind = "ok200" THEN hc[o].run
                                ELSE @.last_health_check ]]
              probed == [hc[o] EXCEPT
                          !.outcomes = Append(@, outcome),
                          !.critical_issues =
                              IF p.critical /\ outcome.kind # "ok200"
                              THEN Append(@, Issue(p, outcome)) ELSE @]
          IN  /\ platforms' = after
              /\ hc' = [hc EXCEPT ![o] =
                          IF outcome.kind = "exc"
                          THEN Recorded(probed, p, after)
                          ELSE [probed EXCEPT !.pc = "record"]]
    /\ UNCHANGED << feature_flags, emergency_stops, audit_logs, checks_started,
                    db_pools, admin_db, call, loop >>

\* The entry of the probed platform is stored from the shared platform object.
RecordPlatform(o) ==
    /\ hc[o].pc = "record"
    /\ hc' = [hc EXCEPT ![o] =
                Recorded(@, PlatformOrder[hc[o].idx], platforms)]
    /\ UNCHANGED << platforms, feature_flags, emergency_stops, audit_logs,
                    checks_started, db_pools, admin_db, call, loop >>

\* init_db: self.db_pool = await asyncpg.create_pool(DATABASE_URL).  The pool
\* that self.db_pool held is not closed, and no code closes a pool: one more
\* pool is open.
InitDb(pools) == Min(pools + 1, MaxPools)

\* system_integration.run_full_health_check raises: asyncpg.create_pool fails
\* in init_db, or ensure_default_data fails.  Nothing catches the exception in
\* run_ecosystem_health_check, so it reaches the owner.
FullHealthCheckRaises(o) ==
    /\ hc[o].pc = "ts3"
    /\ hc' = [hc EXCEPT ![o] = IdleCheck]
    /\ Resume(o, FALSE, hc[o], None)
    /\ \E created \in BOOLEAN :
          db_pools' = IF created THEN InitDb(db_pools) ELSE db_pools
    /\ UNCHANGED << platforms, feature_flags, emergency_stops, audit_logs,
                    checks_started, admin_db >>

\* The row of a completed health check; of the report in its metadata the
\* model keeps the ecosystem status.
HealthCheckRow(report) ==
    AuditRow("SYSTEM", "health_check_completed", "None", "None",
             [ ecosystem_status |-> report.ecosystem_status ])

\* system_integration.run_full_health_check returns its report; the health
\* report is assembled, log_audit_action("SYSTEM", "health_check_completed")
\* writes its row or fails, and the report is returned to the owner.  Between
\* the answer of the TaskSpark check and the answer of the audit write the
\* coroutine touches its own locals only, so the two answers are one step.
FullHealthCheck(o) ==
    /\ hc[o].pc = "ts3"
    /\ \E outcomes \in [1..Len(ServiceOrder) -> ProbeOutcomes],
          db_status \in { "healthy", "unhealthy" },
          outcome \in AuditOutcomesNow :
          LET report == HealthReport(hc[o],
                            RunFullHealthCheck(outcomes, db_status))
          IN  /\ audit_logs' = LogAuditAction(audit_logs,
                                              HealthCheckRow(report), outcome)
              /\ \E open \in StillOpen(outcome) :
                    Resume(o, TRUE,
                           [hc[o] EXCEPT !.service_outcomes = outcomes,
                                         !.conn_open = open],
                           report)
    /\ db_pools' = InitDb(db_pools)
    /\ hc' = [hc EXCEPT ![o] = IdleCheck]
    /\ UNCHANGED << platforms, feature_flags, emergency_stops, checks_started,
                    admin_db >>

\* ------------------------------------------------- inbound health requests

\* runHealthCheck: a direct call of run_ecosystem_health_check.
RunEcosystemHealthCheck(c) ==
    /\ CanCall(c)
    /\ call' = [call EXCEPT ![c] =
                  [NewCall(c) EXCEPT !.op = "run_health_check", !.pc = "check"]]
    /\ hc' = [hc EXCEPT ![c] = BeginCheck(NextRun)]
    /\ checks_started' = NextRun
    /\ UNCHANGED << platforms, feature_flags, emergency_stops, audit_logs,
                    db_pools, admin_db, loop >>

\* What a dashboard request remembers of the call its client made just before
\* it: the flag a completed set_feature_flag wrote.
Follows(frame) ==
    IF frame.op = "set_feature_flag" /\ frame.pc = "done"
    THEN [ flag_key |-> FlagKey(frame.platform_id, frame.feature),
           enabled |-> frame.enabled ]
    ELSE None

\* get_ecosystem_dashboard_data up to its first await (inside the health
\* check).
GetEcosystemDashboardData(c) ==
    /\ CanCall(c)
    /\ call' = [call EXCEPT ![c] =
                  [NewCall(c) EXCEPT !.op = "dashboard", !.pc = "check",
                                   !.follows = Follows(call[c])]]
    /\ hc' = [hc EXCEPT ![c] = BeginCheck(NextRun)]
    /\ checks_started' = NextRun
    /\ UNCHANGED << platforms, feature_flags, emergency_stops, audit_logs,
                    db_pools, admin_db, loop >>

\* The last n elements of a sequence, newest first.
RECURSIVE NewestFirst(_, _)
NewestFirst(table, n) ==
    IF n = 0 \/ table = << >> THEN << >>
    ELSE << table[Len(table)] >>
         \o NewestFirst(SubSeq(table, 1, Len(table) - 1), n - 1)

\* get_recent_audit_logs: ORDER BY created_at DESC LIMIT $1, or [] when the
\* connection or the query fails.
GetRecentAuditLogs(table, limit, outcome) ==
    IF outcome = "ok" THEN NewestFirst(table, limit) ELSE << >>

\* Fault variant: the feature flags are left out of the data.
DashboardDataWithoutFlags(report, flags, stops, recent) ==
    [ ecosystem_health |-> report, feature_flags |-> << >>,
      emergency_stops |-> stops, recent_audit_logs |-> recent ]

\* dashboard_data: the dicts are held by reference, so the data returned show
\* the maps as they are when the call returns.
DashboardData(report, flags, stops, recent) ==
    [ ecosystem_health |-> report, feature_flags |-> flags,
      emergency_stops |-> stops, recent_audit_logs |-> recent ]

\* get_recent_audit_logs answers and get_ecosystem_dashboard_data returns.
DashboardLogs(c) ==
    /\ call[c].pc = "fetch_logs"
    /\ \E outcome \in { "ok", "failed" } :
          call' = [call EXCEPT ![c].pc = "done", ![c].result = "ok",
                     ![c].snapshot =
                        DashboardData(call[c].report, feature_flags,
                                      emergency_stops,
                                      GetRecentAuditLogs(audit_logs,
                                          RecentAuditLimit, outcome))]
    /\ UNCHANGED << platforms, feature_flags, emergency_stops, audit_logs,
                    checks_started, db_pools, admin_db, hc, loop >>


\* ------------------------------------------------------- audit-log queries

\* limit of a query: none, fewer than the table can hold, and the default of
\* get_audit_logs.
LimitInputs == { 0, 1, 2, AdminAuditLimit }

\* action and target_type of get_audit_logs; "" stands for a filter that is
\* not given (None and "" are both false in "if action:").
ActionFilters == { "", "emergency_stop", "feature_flag_changed" }
TargetTypeFilters == { "", "platform", "feature" }

\* The rows a table is filled with before it is queried: those of the
\* control calls and of a health check.
QueryRows ==
    { AuditRow("FANZDASH_CENTRAL", "emergency_stop", "platform",
               PlatformOrder[1].id, [ reason |-> "incident" ]),
      AuditRow("FANZDASH_CENTRAL", "feature_flag_changed", "feature",
               FlagKey(PlatformOrder[1].id, "chat"),
               [ enabled |-> TRUE, reason |-> "" ]),
      AuditRow("SYSTEM", "health_check_completed", "None", "None",
               [ ecosystem_status |-> "healthy" ]) }

\* query.filter(AuditLog.action == action) when action is given, likewise
\* for target_type.
MatchesFilters(row, action, target_type) ==
    /\ action # "" => row.action = action
    /\ target_type # "" => row.target_type = target_type

\* Fault variant: the limit is applied to the newest rows before the filters.
GetAuditLogsLimitFirst(table, limit, action, target_type) ==
    LET n == Len(table)
        newest == { i \in 1..n : i > n - limit }
        hits == { i \in newest : MatchesFilters(table[i], action, target_type) }
        pick[k \in 0..n] ==
            IF k = 0 THEN << >>
            ELSE IF k \in hits
                 THEN pick[k - 1] \o << [ created_at |-> k, row |-> table[k] ] >>
                 ELSE pick[k - 1]
        up == pick[n]
    IN  [ j \in 1..Len(up) |-> up[Len(up) + 1 - j] ]

\* get_audit_logs once the caller is known to be an admin: the rows that pass
\* the filters, ORDER BY created_at DESC, LIMIT limit.  The table is kept in
\* the order of insertion, so the position of a row is its created_at.
RECURSIVE GetAuditLogs(_, _, _, _)
GetAuditLogs(table, limit, action, target_type) ==
    IF limit = 0 \/ table = << >> THEN << >>
    ELSE LET n == Len(table)
             older == SubSeq(table, 1, n - 1)
         IN  IF MatchesFilters(table[n], action, target_type)
             THEN << [ created_at |-> n, row |-> table[n] ] >>
                  \o GetAuditLogs(older, limit - 1, action, target_type)
             ELSE GetAuditLogs(older, limit, action, target_type)

\* AdminService.get_audit_logs: HTTP 403 for a caller who is not an admin,
\* else the rows of the query.
AdminGetAuditLogs(c) ==
    /\ CanCall(c)
    /\ \E is_admin \in BOOLEAN, limit \in LimitInputs,
          action \in ActionFilters, target_type \in TargetTypeFilters :
          call' = [call EXCEPT ![c] =
                     [NewCall(c) EXCEPT
                        !.op = "get_audit_logs", !.pc = "done",
                        !.limit = limit, !.action = action,
                        !.target_type = target_type,
                        !.result = IF is_admin THEN "ok" ELSE "HTTP403",
                        !.logs = IF is_admin
                                 THEN GetAuditLogs(audit_logs, limit, action,
                                                   target_type)
                                 ELSE << >>]]
    /\ UNCHANGED << platforms, feature_flags, emergency_stops, audit_logs,
                    checks_started, db_pools, admin_db, hc, loop >>

\* FanzCentralCommand.get_recent_audit_logs called on its own.
RecentAuditLogs(c) ==
    /\ CanCall(c)
    /\ \E limit \in LimitInputs \cup { RecentAuditLimit },
          outcome \in { "ok", "failed" } :
          call' = [call EXCEPT ![c] =
                     [NewCall(c) EXCEPT
                        !.op = "get_recent_audit_logs", !.pc = "done",
                        !.limit = limit, !.result = "ok", !.audit = outcome,
                        !.logs = GetRecentAuditLogs(audit_logs, limit, outcome)]]
    /\ UNCHANGED << platforms, feature_flags, emergency_stops, audit_logs,
                    checks_started, db_pools, admin_db, hc, loop >>

\* ------------------------------------------------------ content moderation

\* The users table: user_type and vault_access of each user.
Users ==
    [ ceo   |-> [ user_type |-> "admin",     vault_access |-> TRUE ],
      admin |-> [ user_type |-> "admin",     vault_access |-> FALSE ],
      mod   |-> [ user_type |-> "moderator", vault_access |-> FALSE ],
      fan   |-> [ user_type |-> "fan",       vault_access |-> FALSE ] ]

\* Arguments moderate_content is called with: "ghost" is no user, "q404" no
\* queue item, "escalate" an action with no branch of its own.
ModeratorInputs   == DOMAIN Users \cup { "ghost" }
QueueItemInputs   == { "q1", "q404" }
ModerationActions == { "approve", "reject", "vault", "escalate" }
NotesInputs       == { "", "spam" }

\* The rows moderate_content works on: the queue item q1, the status of its
\* post p1 ("absent": no Content row), the vault entries and the audit rows.
\* reviewed_at is 0 while the item has not been reviewed.
QueuedPost ==
    [ item  |-> [ status |-> "pending", assigned_to |-> "", reviewed_at |-> 0,
                  notes |-> "" ],
      post  |-> "pending",
      vault |-> << >>,
      audit |-> << >> ]

\* A Session just opened on the rows: what it holds is what is committed.
NewSession(rows) == [ committed |-> rows, session |-> rows ]

\* db.commit(): what the Session holds becomes the committed rows.
Commit(rows) == [ committed |-> rows, session |-> rows ]

\* _log_audit: db.add(AuditLog(...)).
LogAudit(rows, actor_id, action, metadata) ==
    [rows EXCEPT !.audit =
        Append(@, AuditRow(actor_id, action, "post", "p1", metadata))]

\* An HTTPException leaves the function: nothing is committed and nothing is
\* rolled back, the Session keeps what was assigned before the raise.
Raised(status, rows) == [ result |-> status, commit |-> FALSE, rows |-> rows ]

\* The function returns after db.commit().
Returned(rows) == [ result |-> "ok", commit |-> TRUE, rows |-> rows ]

\* move_post_to_vault on the rows of the Session.
MovePostToVault(rows, reason, evidence, admin_id) ==
    IF \/ admin_id \notin DOMAIN Users
       \/ Users[admin_id].user_type # "admin"
       \/ ~Users[admin_id].vault_access
    THEN Raised("HTTP403", rows)
    ELSE IF rows.post = "absent"
    THEN Raised("HTTP404", rows)
    ELSE Returned(LogAudit(
            [rows EXCEPT !.vault = Append(@, [ original_post_id |-> "p1",
                                              reason |-> reason,
                                              evidence |-> evidence ]),
                         !.post = "absent"],
            admin_id, "move_to_vault",
            [ reason |-> reason, evidence |-> evidence ]))

\* post.status after the approve and reject branches.
ModeratedPost(post, action) ==
    IF post = "absent" THEN post
    ELSE CASE action = "approve" -> "approved"
           [] action = "reject"  -> "rejected"
           [] OTHER              -> post

\* moderate_content on the rows of the Session, at time now.
ModerateRows(rows, queue_item_id, moderator_id, action, notes, now) ==
    IF \/ moderator_id \notin DOMAIN Users
       \/ Users[moderator_id].user_type \notin { "admin", "moderator" }
    THEN Raised("HTTP403", rows)
    ELSE IF queue_item_id # "q1"
    THEN Raised("HTTP404", rows)
    ELSE LET updated == [rows EXCEPT !.item = [ status |-> action,
                                                assigned_to |-> moderator_id,
                                                reviewed_at |-> now,
                                                notes |-> notes ]]
         IN  IF action = "vault"
             THEN MovePostToVault(updated, "Moderated content: " \o notes,
                                  [ moderation_notes |-> notes,
                                    queue_item_id |-> queue_item_id ],
                                  moderator_id)
             ELSE Returned(LogAudit(
                     [updated EXCEPT !.post = ModeratedPost(@, action)],
                     moderator_id, "moderate_" \o action,
                     [ notes |-> notes, queue_item_id |-> queue_item_id ]))

\* moderate_content: no await of it suspends (_log_audit and
\* move_post_to_vault await nothing), so the call is one step.
ModerateContent(c) ==
    /\ CanCall(c)
    /\ \E q \in QueueItemInputs, m \in ModeratorInputs,
          a \in ModerationActions, notes \in NotesInputs :
          LET out == ModerateRows(admin_db.session, q, m, a, notes,
                                  CallsMade(Clients) + 1)
          IN  /\ admin_db' = IF out.commit THEN Commit(out.rows)
                             ELSE [admin_db EXCEPT !.session = out.rows]
              /\ call' = [call EXCEPT ![c] =
                            [NewCall(c) EXCEPT !.op = "moderate_content",
                                             !.pc = "done", !.action = a,
                                             !.moderator_id = m,
                                             !.queue_item_id = q,
                                             !.notes = notes,
                                             !.result = out.result]]
    /\ UNCHANGED << platforms, feature_flags, emergency_stops, audit_logs,
                    checks_started, db_pools, hc, loop >>

\* ------------------------------------------------------------ monitor loops

\* Fault variant: the three loops share one task, and a cycle starts only
\* when no other loop is inside a cycle.
AtTopTogether(l) ==
    \A k \in Loops : loop[k].pc \in { "new", "sleep", "unscheduled" }

\* The top of while True: the task has just been created, or its sleep ended.
AtTop(l) == loop[l].pc \in { "new", "sleep" }

\* The frame of loop l at the start of its next cycle, suspended at pc.
NextCycle(l, pc) ==
    [NewLoop EXCEPT !.pc = pc, !.after_error = (loop[l].last = "error"),
                    !.storm = loop[l].storm]

\* continuous_health_monitoring: the sleep ends and the next cycle calls
\* run_ecosystem_health_check.
HealthCycle ==
    /\ AtTop("health")
    /\ loop' = [loop EXCEPT !["health"] = NextCycle("health", "check")]
    /\ hc' = [hc EXCEPT !["health"] = BeginCheck(NextRun)]
    /\ checks_started' = NextRun
    /\ UNCHANGED << platforms, feature_flags, emergency_stops, audit_logs,
                    db_pools, admin_db, call >>

\* trigger_critical_alert: the row of the alert (of its metadata the model
\* keeps the issues).
CriticalAlertRow(issues) ==
    AuditRow("ALERT_SYSTEM", "critical_alert_triggered", "None", "None",
             [ alert_type |-> "CRITICAL_SYSTEM", issues |-> issues ])

\* trigger_critical_alert, then the sleep; the frame counts the rows the
\* alert inserted.
HealthAlert ==
    /\ loop["health"].pc = "alert"
    /\ \E outcome \in AuditOutcomesNow :
          /\ audit_logs' = LogAuditAction(audit_logs,
                               CriticalAlertRow(loop["health"].issues), outcome)
          /\ \E open \in StillOpen(outcome) :
                loop' = [loop EXCEPT !["health"] =
                           EndCycle([@ EXCEPT
                                       !.conn_open = @ \/ open,
                                       !.alerts = @ + Len(audit_logs')
                                                    - Len(audit_logs),
                                       !.audit = outcome])]
    /\ UNCHANGED << platforms, feature_flags, emergency_stops, checks_started,
                    db_pools, admin_db, call, hc >>

\* payment_system_monitoring: the sleep ends and the next cycle checks the
\* first processor.
PaymentCycle ==
    /\ AtTop("payment")
    /\ loop' = [loop EXCEPT !["payment"] = NextCycle("payment", "processor")]
    /\ UNCHANGED << platforms, feature_flags, emergency_stops, audit_logs,
                    checks_started, db_pools, admin_db, call, hc >>

\* The payment loop after processor idx: the next processor, or FanzFinance.
NextProcessor(frame) ==
    IF frame.idx < Len(PaymentProcessors)
    THEN [frame EXCEPT !.pc = "processor", !.idx = @ + 1]
    ELSE [frame EXCEPT !.pc = "finance"]

\* check_payment_processor_health answers: healthy, not healthy (an audit
\* row follows) or an exception, which ends the cycle.
PaymentProcessor ==
    /\ loop["payment"].pc = "processor"
    /\ \E answer \in { "healthy", "unhealthy", "raises" } :
          loop' = [loop EXCEPT !["payment"] =
                     CASE answer = "healthy"   -> NextProcessor(@)
                       [] answer = "unhealthy" -> [@ EXCEPT !.pc = "processor_audit"]
                       [] OTHER                -> CatchCycleError(@)]
    /\ UNCHANGED << platforms, feature_flags, emergency_stops, audit_logs,
                    checks_started, db_pools, admin_db, call, hc >>

\* log_audit_action("PAYMENT_SYSTEM", f"processor_{processor}_issue")
ProcessorIssueRow(processor) ==
    AuditRow("PAYMENT_SYSTEM", "processor_" \o processor \o "_issue",
             "None", "None", [ processor |-> processor, healthy |-> FALSE ])

\* The audit row of a processor that is not healthy.
PaymentProcessorAudit ==
    /\ loop["payment"].pc = "processor_audit"
    /\ \E outcome \in AuditOutcomesNow :
          /\ audit_logs' = LogAuditAction(audit_logs,
                               ProcessorIssueRow(
                                   PaymentProcessors[loop["payment"].idx]),
                               outcome)
          /\ \E open \in StillOpen(outcome) :
                loop' = [loop EXCEPT !["payment"] =
                           NextProcessor([@ EXCEPT !.conn_open = @ \/ open])]
    /\ UNCHANGED << platforms, feature_flags, emergency_stops, checks_started,
                    db_pools, admin_db, call, hc >>

\* check_fanzfinance_health returns or raises; then the sleep.
PaymentFinance ==
    /\ loop["payment"].pc = "finance"
    /\ \E ok \in BOOLEAN :
          loop' = [loop EXCEPT !["payment"] =
                     IF ok THEN EndCycle(@) ELSE CatchCycleError(@)]
    /\ UNCHANGED << platforms, feature_flags, emergency_stops, audit_logs,
                    checks_started, db_pools, admin_db, call, hc >>

\* content_moderation_monitoring: the sleep ends and the next cycle asks for
\* the queue statistics.
ModerationCycle ==
    /\ AtTop("moderation")
    /\ loop' = [loop EXCEPT !["moderation"] = NextCycle("moderation", "stats")]
    /\ UNCHANGED << platforms, feature_flags, emergency_stops, audit_logs,
                    checks_started, db_pools, admin_db, call, hc >>

\* Fault variant: the threshold itself already counts as a backup.
QueueAtThreshold(queue_stats) ==
    queue_stats.pending_reviews >= ModerationAlertThreshold

\* if queue_stats["pending_reviews"] > 100
QueueBackingUp(queue_stats) ==
    queue_stats.pending_reviews > ModerationAlertThreshold

\* get_moderation_queue_stats answers (or raises); the queue is compared with
\* the threshold.
ModerationStats ==
    /\ loop["moderation"].pc = "stats"
    /\ \/ loop' = [loop EXCEPT !["moderation"] = CatchCycleError(@)]
       \/ \E n \in PendingInputs :
             LET queue_stats == [ pending_reviews |-> n ]
             IN  loop' = [loop EXCEPT !["moderation"] =
                            [@ EXCEPT !.stats = queue_stats,
                                      !.pc = IF QueueBackingUp(queue_stats)
                                             THEN "alert" ELSE "protect"]]
    /\ UNCHANGED << platforms, feature_flags, emergency_stops, audit_logs,
                    checks_started, db_pools, admin_db, call, hc >>

\* trigger_moderation_alert: the row of the alert.
ModerationAlertRow(queue_stats) ==
    AuditRow("MODERATION_SYSTEM", "queue_backup_alert", "None", "None",
             [ alert_type |-> "MODERATION_BACKUP", queue_stats |-> queue_stats ])

\* The rows trigger_moderation_alert leaves in the table.
TriggerModerationAlert(table, queue_stats, outcome) ==
    LogAuditAction(table, ModerationAlertRow(queue_stats), outcome)

\* trigger_moderation_alert; the frame counts the rows the cycle inserted.
ModerationAlert ==
    /\ loop["moderation"].pc = "alert"
    /\ \E outcome \in AuditOutcomesNow :
          /\ audit_logs' = TriggerModerationAlert(audit_logs,
                               loop["moderation"].stats, outcome)
          /\ \E open \in StillOpen(outcome) :
                loop' = [loop EXCEPT !["moderation"] =
                           [@ EXCEPT !.pc = "protect",
                                     !.alerts = @ + Len(audit_logs')
                                                  - Len(audit_logs),
                                     !.audit = outcome,
                                     !.conn_open = @ \/ open]]
    /\ UNCHANGED << platforms, feature_flags, emergency_stops, checks_started,
                    db_pools, admin_db, call, hc >>

\* check_fanzprotect_health returns or raises; then the sleep.
ModerationProtect ==
    /\ loop["moderation"].pc = "protect"
    /\ \E ok \in BOOLEAN :
          loop' = [loop EXCEPT !["moderation"] =
                     IF ok THEN EndCycle(@) ELSE CatchCycleError(@)]
    /\ UNCHANGED << platforms, feature_flags, emergency_stops, audit_logs,
                    checks_started, db_pools, admin_db, call, hc >>

\* ----------------------------------------------------------- specifications

\* The state after FanzCentralCommand.__init__ and setup_monitoring.
Init ==
    /\ platforms = [ p \in PlatformIds |->
                       [ status |-> "unknown", last_health_check |-> 0 ] ]
    /\ feature_flags = << >>
    /\ emergency_stops = << >>
    /\ audit_logs = << >>
    /\ checks_started = 0
    /\ db_pools = 0
    /\ admin_db = NewSession(QueuedPost)
    /\ call = [ c \in Clients |-> IdleCall ]
    /\ hc = [ o \in Owners |-> IdleCheck ]
    /\ loop = [ l \in Loops |-> NewLoop ]

\* The steps of a health check owned by o.
CheckStep(o) ==
    \/ ProbePlatform(o)
    \/ RecordPlatform(o)
    \/ FullHealthCheckRaises(o)
    \/ FullHealthCheck(o)

\* The control plane under concurrent administrative writers.
Next ==
    \E c \in Clients :
        \/ SetFeatureFlag(c)
        \/ EmergencyStopPlatform(c)
        \/ ControlAudit(c)

Spec == Init /\ [][Next]_vars

\* A table that control calls and health checks have filled, and one client
\* that queries it.
QueryInit ==
    /\ platforms = [ p \in PlatformIds |->
                       [ status |-> "unknown", last_health_check |-> 0 ] ]
    /\ feature_flags = << >>
    /\ emergency_stops = << >>
    /\ audit_logs \in UNION { [1..n -> QueryRows] : n \in 0..MaxAudit }
    /\ checks_started = 0
    /\ db_pools = 0
    /\ admin_db = NewSession(QueuedPost)
    /\ call = [ c \in Clients |-> IdleCall ]
    /\ hc = [ o \in Owners |-> IdleCheck ]
    /\ loop = [ l \in Loops |-> NewLoop ]

QueryNext ==
    \/ AdminGetAuditLogs("c1")
    \/ RecentAuditLogs("c1")

QuerySpec == QueryInit /\ [][QueryNext]_vars

\* The moderators' calls on one Session over the queue item of a post that
\* exists or has no Content row.
ModInit ==
    /\ platforms = [ p \in PlatformIds |->
                       [ status |-> "unknown", last_health_check |-> 0 ] ]
    /\ feature_flags = << >>
    /\ emergency_stops = << >>
    /\ audit_logs = << >>
    /\ checks_started = 0
    /\ db_pools = 0
    /\ admin_db \in { NewSession(QueuedPost),
                      NewSession([QueuedPost EXCEPT !.post = "absent"]) }
    /\ call = [ c \in Clients |-> IdleCall ]
    /\ hc = [ o \in Owners |-> IdleCheck ]
    /\ loop = [ l \in Loops |-> NewLoop ]

ModNext == \E c \in Clients : ModerateContent(c)

ModSpec == ModInit /\ [][ModNext]_vars

\* The integration check run on its own, by one process or two.
MainNext == \E c \in Clients : IntegrationMain(c)

MainSpec == Init /\ [][MainNext]_vars

\* One administrative client that makes its calls one after the other.
SeqNext ==
    \/ SetFeatureFlag("c1")
    \/ EmergencyStopPlatform("c1")
    \/ ControlAudit("c1")
    \/ RunEcosystemHealthCheck("c1")
    \/ GetEcosystemDashboardData("c1")
    \/ DashboardLogs("c1")
    \/ CheckStep("c1")

SeqSpec == Init /\ [][SeqNext]_vars

\* The monitor loops, followed one at a time: the two other tasks are not
\* given the processor in the behaviour (a loop writes no frame but its own,
\* and reads nothing another loop writes).
LoopInit ==
    /\ platforms = [ p \in PlatformIds |->
                       [ status |-> "unknown", last_health_check |-> 0 ] ]
    /\ feature_flags = << >>
    /\ emergency_stops = << >>
    /\ audit_logs = << >>
    /\ checks_started = 0
    /\ db_pools = 0
    /\ admin_db = NewSession(QueuedPost)
    /\ call = [ c \in Clients |-> IdleCall ]
    /\ hc = [ o \in Owners |-> IdleCheck ]
    /\ \E followed \in Loops :
          loop = [ l \in Loops |->
                     IF l = followed THEN NewLoop
                     ELSE [NewLoop EXCEPT !.pc = "unscheduled"] ]

HealthLoopStep == HealthCycle \/ CheckStep("health") \/ HealthAlert

PaymentLoopStep ==
    PaymentCycle \/ PaymentProcessor \/ PaymentProcessorAudit \/ PaymentFinance

ModerationLoopStep ==
    ModerationCycle \/ ModerationStats \/ ModerationAlert \/ ModerationProtect

LoopNext == HealthLoopStep \/ PaymentLoopStep \/ ModerationLoopStep

LoopSpec == LoopInit /\ [][LoopNext]_vars

\* The event loop runs every task that is ready; probes and sleeps end.
FairLoopSpec ==
    /\ LoopSpec
    /\ WF_vars(HealthLoopStep)
    /\ WF_vars(PaymentLoopStep)
    /\ WF_vars(ModerationLoopStep)

\* Fault variant: the except clause of the loop catches the cancellation
\* (except BaseException, or a bare except): the request is used up and the
\* loop goes to its sleep.
CancellationCaught(frame) ==
    [frame EXCEPT !.pc = "sleep", !.last = "error", !.cancel = FALSE]

\* asyncio.CancelledError thrown into a monitoring coroutine at the await
\* where it is suspended: it is not an Exception, so no except Exception
\* clause on its way catches it and the coroutine ends.
Cancelled(frame) == [frame EXCEPT !.pc = "cancelled"]

\* Shutdown: the event loop cancels every task that setup_monitoring created
\* (task.cancel() on each, while no task is running).
Shutdown ==
    /\ \E l \in Loops : loop[l].pc \notin { "unscheduled", "cancelled" }
                        /\ ~loop[l].cancel
    /\ loop' = [ l \in Loops |->
                   IF loop[l].pc = "unscheduled" THEN loop[l]
                   ELSE [loop[l] EXCEPT !.cancel = TRUE] ]
    /\ UNCHANGED << platforms, feature_flags, emergency_stops, audit_logs,
                    checks_started, db_pools, admin_db, call, hc >>

\* The task of loop l is resumed after the request: the cancellation is
\* thrown in where it waits; a health check in flight is abandoned.
DeliverCancel(l) ==
    /\ loop[l].cancel
    /\ loop[l].pc \notin { "unscheduled", "cancelled" }
    /\ loop' = [loop EXCEPT ![l] = Cancelled(@)]
    /\ hc' = IF l \in Owners THEN [hc EXCEPT ![l] = IdleCheck] ELSE hc
    /\ UNCHANGED << platforms, feature_flags, emergency_stops, audit_logs,
                    checks_started, db_pools, admin_db, call >>

\* A step of a loop whose task has not been asked to stop.
RunningStep ==
    \/ ~loop["health"].cancel /\ HealthLoopStep
    \/ ~loop["payment"].cancel /\ PaymentLoopStep
    \/ ~loop["moderation"].cancel /\ ModerationLoopStep

ShutdownNext ==
    \/ RunningStep
    \/ Shutdown
    \/ \E l \in Loops : DeliverCancel(l)

\* A monitor loop, followed until and after the process is shut down.
ShutdownSpec == LoopInit /\ [][ShutdownNext]_vars

\* The event loop runs every task that is ready, also to deliver a
\* cancellation; nothing obliges the process to be shut down.
FairShutdownSpec ==
    /\ ShutdownSpec
    /\ WF_vars(RunningStep)
    /\ WF_vars(\E l \in Loops : DeliverCancel(l))

\* The health loop beside one client that asks for the dashboard: two health
\* checks can be in flight on the same platform objects.
ConcInit ==
    /\ platforms = [ p \in PlatformIds |->
                       [ status |-> "unknown", last_health_check |-> 0 ] ]
    /\ feature_flags = << >>
    /\ emergency_stops = << >>
    /\ audit_logs = << >>
    /\ checks_started = 0
    /\ db_pools = 0
    /\ admin_db = NewSession(QueuedPost)
    /\ call = [ c \in Clients |-> IdleCall ]
    /\ hc = [ o \in Owners |-> IdleCheck ]
    /\ loop = [ l \in Loops |->
                  IF l = "health" THEN NewLoop
                  ELSE [NewLoop EXCEPT !.pc = "unscheduled"] ]

\* One cycle of the health loop and one dashboard request that arrives while
\* the loop's health check is in flight; what either does alone is SeqSpec's
\* and LoopSpec's to explore.
ConcNext ==
    \/ loop["health"].pc = "new" /\ HealthCycle
    \/ CheckStep("health")
    \/ HealthAlert
    \/ /\ hc["health"].pc # "idle"
       /\ call["c1"].n = 0
       /\ GetEcosystemDashboardData("c1")
    \/ CheckStep("c1")
    \/ DashboardLogs("c1")

ConcSpec == ConcInit /\ [][ConcNext]_vars

\* The loop each loop is set beside.
Neighbour(l) ==
    CASE l = "health"     -> "payment"
      [] l = "payment"    -> "moderation"
      [] l = "moderation" -> "health"

\* Two monitor loops side by side, a sound one beside its neighbour, which is
\* in a storm: every cycle of the neighbour raises at the first call that can
\* raise, or hangs there.  The third loop is not given the processor.
StormInit ==
    /\ platforms = [ p \in PlatformIds |->
                       [ status |-> "unknown", last_health_check |-> 0 ] ]
    /\ feature_flags = << >>
    /\ emergency_stops = << >>
    /\ audit_logs = << >>
    /\ checks_started = 0
    /\ db_pools = 0
    /\ admin_db = NewSession(QueuedPost)
    /\ call = [ c \in Clients |-> IdleCall ]
    /\ hc = [ o \in Owners |-> IdleCheck ]
    /\ \E sound \in Loops :
          loop = [ l \in Loops |->
                     IF l = sound THEN NewLoop
                     ELSE IF l = Neighbour(sound)
                          THEN [NewLoop EXCEPT !.storm = TRUE]
                          ELSE [NewLoop EXCEPT !.pc = "unscheduled"] ]

\* The steps of loop l whose calls answer in any way.
SoundStep(l) ==
    /\ ~loop[l].storm
    /\ CASE l = "health"     -> HealthLoopStep
         [] l = "payment"    -> PaymentLoopStep
         [] l = "moderation" -> ModerationLoopStep

\* The steps of a health loop in a storm: the probes answer, the TaskSpark
\* check raises at its first call (asyncpg.create_pool).
HealthStorm ==
    /\ loop["health"].storm
    /\ \/ HealthCycle
       \/ ProbePlatform("health")
       \/ RecordPlatform("health")
       \/ FullHealthCheckRaises("health") /\ db_pools' = db_pools

\* The steps of a payment loop in a storm: the first processor check raises.
PaymentStorm ==
    /\ loop["payment"].storm
    /\ \/ PaymentCycle
       \/ PaymentProcessor /\ loop'["payment"].last = "error"

\* The steps of a moderation loop in a storm: the queue statistics raise.
ModerationStorm ==
    /\ loop["moderation"].storm
    /\ \/ ModerationCycle
       \/ ModerationStats /\ loop'["moderation"].last = "error"

StormNext ==
    \/ SoundStep("health")
    \/ SoundStep("payment")
    \/ SoundStep("moderation")
    \/ HealthStorm
    \/ PaymentStorm
    \/ ModerationStorm

StormSpec == StormInit /\ [][StormNext]_vars

\* The event loop runs the sound loop whenever it is ready; nothing is
\* promised about the loop in the storm, whose calls may also hang for good.
FairStormSpec ==
    /\ StormSpec
    /\ WF_vars(SoundStep("health"))
    /\ WF_vars(SoundStep("payment"))
    /\ WF_vars(SoundStep("moderation"))

\* -------------------------------------------------------------- properties

\* The clients whose call has got a health report back.
Reported == { c \in Clients : call[c].report # None }

\* The platforms, by position, whose probe raised in the check of frame.
ProbesDown(frame) ==
    { i \in 1..Len(frame.probes) : frame.probes[i].kind = "exc" }

\* Whether the list of critical issues names the platform as being in state.
Names(critical_issues, name, state) ==
    \E j \in 1..Len(critical_issues) :
        /\ critical_issues[j].name = name
        /\ critical_issues[j].state = state

\* The services, by position, whose probe raised in the check of frame.
ServicesDown(frame) ==
    { i \in 1..Len(frame.service_probes) : frame.service_probes[i].kind = "exc" }

\* C1: whenever a probe of a health check found a critical platform or a
\* critical service down, the report of that check has status "critical" and
\* its list of critical issues names what is down.
C1_CriticalDownReported ==
    \A c \in Reported :
        /\ \A i \in ProbesDown(call[c]) :
              PlatformOrder[i].critical =>
                  /\ call[c].report.ecosystem_status = "critical"
                  /\ Names(call[c].report.critical_issues,
                           PlatformOrder[i].name, "down")
        /\ \A i \in ServicesDown(call[c]) :
              ServiceOrder[i].critical =>
                  /\ call[c].report.ecosystem_status = "critical"
                  /\ Names(call[c].report.critical_issues,
                           ServiceOrder[i].service, "down")

\* C2: with no critical platform down the ecosystem status of a report is
\* the all-clear one, and with no critical service down the overall status of
\* its service report is "operational", whatever failed that is not critical
\* and whatever answered with a non-success response.
C2_OperationalUnlessCriticalDown ==
    \A c \in Reported :
        LET report == call[c].report
        IN  /\ (\A i \in ProbesDown(call[c]) : ~PlatformOrder[i].critical)
                  => report.ecosystem_status = "healthy"
            /\ (\A i \in ServicesDown(call[c]) : ~ServiceOrder[i].critical)
                  => report.taskspark3_services.overall_status = "operational"

\* C3: in each monitor loop a cycle that raised leaves the loop asleep, not
\* ended, and the failed cycle does not last: the loop starts its next cycle
\* (which is what takes the loop out of the failed one), again and again.
C3_LoopSurvivesFailingCycle ==
    \A l \in Loops :
        /\ [](loop[l].last = "error" => loop[l].pc = "sleep")
        /\ []<>(loop[l].last # "error")

\* A loop is inside the cycle that follows a cycle that raised.
C3_Witness ==
    \E l \in Loops : loop[l].after_error /\ loop[l].pc \notin { "new", "sleep" }

\* A client starts an emergency stop for a platform id that is not registered.
UnknownStopStep(c) ==
    /\ call'[c].n = call[c].n + 1
    /\ call'[c].op = "emergency_stop"
    /\ call'[c].platform_id \notin PlatformIds

\* C4: an emergency stop for a platform id that is not registered fails with
\* ValueError at once, leaves the map of emergency stops as it was and appends
\* no audit row.
C4_UnknownPlatformRejected ==
    [][\A c \in Clients :
          UnknownStopStep(c) =>
              /\ call'[c].pc = "done"
              /\ call'[c].result = "ValueError"
              /\ emergency_stops' = emergency_stops
              /\ audit_logs' = audit_logs]_vars

\* An emergency stop for an unregistered platform id has been refused.
C4_Witness ==
    \E c \in Clients :
        /\ call[c].op = "emergency_stop"
        /\ call[c].platform_id \notin PlatformIds
        /\ call[c].result = "ValueError"

\* The control calls that have returned normally.
Completed(op) ==
    { c \in Clients :
        call[c].op = op /\ call[c].pc = "done" /\ call[c].result = "ok" }

\* Whether the table holds a row of the action for the target.
Audited(action, target_id) ==
    \E i \in 1..Len(audit_logs) :
        /\ audit_logs[i].action = action
        /\ audit_logs[i].target_id = target_id

\* C5: when the audit write of a control call succeeds, the call has appended
\* exactly one row by the time it returns, a feature_flag_changed row for its
\* flag or an emergency_stop row for its platform, and none before the write.
C5_OneAuditRowPerControlCall ==
    /\ \A c \in Clients :
          call[c].pc = "audit" => call[c].logged = 0
    /\ \A c \in Completed("set_feature_flag") :
          call[c].audit = "ok" =>
              /\ call[c].logged = 1
              /\ Audited("feature_flag_changed",
                         call[c].platform_id \o ":" \o call[c].feature)
    /\ \A c \in Completed("emergency_stop") :
          call[c].audit = "ok" =>
              /\ call[c].logged = 1
              /\ Audited("emergency_stop", call[c].platform_id)

\* A flag change and an emergency stop have both returned with their audit
\* rows written.
C5_Witness ==
    /\ \E c \in Completed("set_feature_flag") : call[c].audit = "ok"
    /\ \E c \in Completed("emergency_stop") : call[c].audit = "ok"

\* The control calls whose audit write failed.
AuditFailed(op) ==
    { c \in Clients :
        /\ call[c].op = op
        /\ call[c].pc = "done"
        /\ call[c].audit \in AuditOutcomes \ { "ok" } }

\* C6: a control call whose audit write failed (at connect or at insert) has
\* nevertheless returned normally, has added no audit row, and the flag or
\* the stop it wrote is still in the control-plane state.
C6_AuditFailureSwallowed ==
    /\ \A c \in AuditFailed("set_feature_flag") :
          /\ call[c].result = "ok"
          /\ call[c].logged = 0
          /\ (call[c].platform_id \o ":" \o call[c].feature)
                \in DOMAIN feature_flags
    /\ \A c \in AuditFailed("emergency_stop") :
          /\ call[c].result = "ok"
          /\ call[c].logged = 0
          /\ call[c].platform_id \in DOMAIN emergency_stops

\* A flag change whose audit connection failed and an emergency stop whose
\* audit insert failed have both returned.
C6_Witness ==
    /\ \E c \in AuditFailed("set_feature_flag") :
          call[c].audit = "connect_failed"
    /\ \E c \in AuditFailed("emergency_stop") :
          call[c].audit = "insert_failed"

\* The dashboard requests that returned data right after a flag change of
\* the same client.
SnapshotsAfterSet ==
    { c \in Clients :
        /\ call[c].op = "dashboard"
        /\ call[c].snapshot # None
        /\ call[c].follows # None }

\* C7: with one writer, the dashboard data returned by the request that
\* follows a flag change show, under the key of that flag, the enabled value
\* that was set.
C7_ReadAfterWrite ==
    \A c \in SnapshotsAfterSet :
        LET flags == call[c].snapshot.feature_flags
            key == call[c].follows.flag_key
        IN  /\ key \in DOMAIN flags
            /\ flags[key].enabled = call[c].follows.enabled

\* Dashboard data have been returned after a flag was switched on.
C7_Witness ==
    \E c \in SnapshotsAfterSet : call[c].follows.enabled

\* The moderation loop is past the threshold test of a cycle that got its
\* queue statistics.
ModerationEvaluated ==
    /\ loop["moderation"].stats # None
    /\ loop["moderation"].pc \in { "protect", "sleep" }

Checked ==
    { c \in Clients :
        /\ call[c].op \in { "run_health_check", "dashboard" }
        /\ call[c].pc \in { "fetch_logs", "done" } }

\* C9: no probe ends a health check.  A check that has ended has got an
\* outcome from the probe of every platform; a report holds one entry per
\* platform and one per service, and the entry of a platform or service whose
\* probe raised has status "down".
C9_ProbeNeverRaises ==
    /\ \A c \in Checked : Len(call[c].probes) = Len(PlatformOrder)
    /\ \A c \in Reported :
          LET report == call[c].report
              details == report.taskspark3_services.services.details
          IN  /\ DOMAIN report.platforms = PlatformIds
              /\ Len(details) = Len(ServiceOrder)
              /\ report.taskspark3_services.services.total = Len(ServiceOrder)
              /\ \A i \in 1..Len(ServiceOrder) :
                    details[i].service = ServiceOrder[i].service
              /\ \A i \in ProbesDown(call[c]) :
                    report.platforms[PlatformOrder[i].id].status = "down"
              /\ \A i \in ServicesDown(call[c]) : details[i].status = "down"

\* A report has come back from a check in which the probe of a platform and
\* the probe of a service raised.
C9_Witness ==
    \E c \in Reported :
        /\ ProbesDown(call[c]) # { }
        /\ ServicesDown(call[c]) # { }
        /\ Len(call[c].report.taskspark3_services.services.details)
              = Len(ServiceOrder)

\* The statuses a report lists for its platforms and for its services.
PlatformStatuses(report) ==
    { report.platforms[p].status : p \in DOMAIN report.platforms }

ServiceStatuses(report) ==
    LET details == report.taskspark3_services.services.details
    IN  { details[i].status : i \in 1..Len(details) }

Sound == { l \in Loops : loop[l].pc # "unscheduled" /\ ~loop[l].storm }

\* Loop l is in the first step of a cycle: the call its cycle begins with is
\* under way.
Started(l) ==
    CASE l = "health"     -> loop[l].pc = "check" /\ hc[l].outcomes = << >>
      [] l = "payment"    -> loop[l].pc = "processor" /\ loop[l].idx = 1
      [] l = "moderation" -> loop[l].pc = "stats"

Scheduled == { l \in Loops : loop[l].pc # "unscheduled" }

\* The places a monitor loop can be suspended at.
LoopPlaces(l) ==
    CASE l = "health"     -> { "new", "check", "alert", "sleep" }
      [] l = "payment"    -> { "new", "processor", "processor_audit",
                               "finance", "sleep" }
      [] l = "moderation" -> { "new", "stats", "alert", "protect", "sleep" }

\* C12: a monitor loop never ends: whatever its checks, alerts and audit
\* writes answered, the loop is suspended at one of the awaits of its body or
\* at its sleep, and it has a next step to take.
C12_LoopNeverEnds ==
    /\ \A l \in Scheduled : loop[l].pc \in LoopPlaces(l)
    /\ "health" \in Scheduled => ENABLED HealthLoopStep
    /\ "payment" \in Scheduled => ENABLED PaymentLoopStep
    /\ "moderation" \in Scheduled => ENABLED ModerationLoopStep

\* A loop is asleep after a cycle that went well, which followed a cycle that
\* raised, with the audit table refusing further rows.
C12_Witness ==
    \E l \in Scheduled :
        /\ loop[l].pc = "sleep"
        /\ loop[l].last = "ok"
        /\ loop[l].after_error
        /\ "ok" \notin AuditOutcomesNow

\* The targets of the rows of the table that record the action.
Targets(action) ==
    { audit_logs[i].target_id :
        i \in { j \in 1..Len(audit_logs) : audit_logs[j].action = action } }

\* C13: the mutation comes before its audit record: whenever the table holds
\* an emergency_stop row for a platform the map of emergency stops holds that
\* platform, and whenever it holds a feature_flag_changed row for a key the
\* map of flags holds that key.
C13_MutationBeforeAudit ==
    /\ Targets("emergency_stop") \subseteq DOMAIN emergency_stops
    /\ Targets("feature_flag_changed") \subseteq DOMAIN feature_flags

\* The table holds the row of an emergency stop and the row of a flag change.
C13_Witness ==
    /\ Targets("emergency_stop") # { }
    /\ Targets("feature_flag_changed") # { }

\* C14: a flag change for a platform id that is not registered fails with an
\* error the caller sees, stores no flag and appends no audit row.
C14_UnknownPlatformFlagRejected ==
    \A c \in Clients :
        (call[c].op = "set_feature_flag"
            /\ call[c].platform_id \notin PlatformIds) =>
            /\ call[c].pc = "done"
            /\ call[c].result = "ValueError"
            /\ FlagKey(call[c].platform_id, call[c].feature)
                  \notin DOMAIN feature_flags
            /\ FlagKey(call[c].platform_id, call[c].feature)
                  \notin Targets("feature_flag_changed")

\* The clients whose dashboard request, the only call made so far, has
\* returned.
FirstDashboardDone ==
    { c \in Clients :
        /\ call[c].op = "dashboard"
        /\ call[c].pc = "done"
        /\ CallsMade(Clients) = 1 }

SettingFlag ==
    { c \in Clients :
        /\ call'[c].op = "set_feature_flag"
        /\ call'[c].pc = "audit"
        /\ call'[c].n = call[c].n + 1 }

\* C16: the last write of a flag wins, whatever the interleaving of the
\* callers.  A step in which set_feature_flag is called leaves under the key
\* the enabled value and the reason of that call, leaves every other key as it
\* was and changes no emergency stop; no other step changes a flag.
C16_LastWriteWins ==
    [][/\ \A c \in SettingFlag :
             LET key == FlagKey(call'[c].platform_id, call'[c].feature)
             IN  /\ DOMAIN feature_flags' = DOMAIN feature_flags \cup { key }
                 /\ feature_flags'[key].enabled = call'[c].enabled
                 /\ feature_flags'[key].reason = call'[c].reason
                 /\ \A k \in DOMAIN feature_flags \ { key } :
                       feature_flags'[k] = feature_flags[k]
                 /\ emergency_stops' = emergency_stops
       /\ SettingFlag = { } => feature_flags' = feature_flags]_vars

\* Two callers have written the same flag with opposite values, the second
\* while the audit write of the first was pending; the flag holds the value
\* of the second.
C16_Witness ==
    \E c, d \in Clients :
        /\ call[c].op = "set_feature_flag"
        /\ call[d].op = "set_feature_flag"
        /\ call[c].pc = "done"
        /\ call[d].pc = "audit"
        /\ call[c].platform_id = call[d].platform_id
        /\ call[c].feature = call[d].feature
        /\ call[c].enabled # call[d].enabled
        /\ call[c].audit = "ok"
        /\ feature_flags[FlagKey(call[d].platform_id, call[d].feature)].enabled
              = call[d].enabled

\* The platforms for which emergency_stop_platform is called in the step and
\* gets past its check.
StoppedNow ==
    { call'[c].platform_id :
        c \in { d \in Clients :
                  /\ call'[d].op = "emergency_stop"
                  /\ call'[d].pc = "audit"
                  /\ call'[d].n = call[d].n + 1 } }

IssuesNaming(critical_issues, name) ==
    Cardinality({ j \in 1..Len(critical_issues) :
                    critical_issues[j].name = name })

\* The list of critical issues of the report holds one entry for each
\* critical platform whose status in the report is not "healthy" and none for
\* any other platform.
PlatformIssuesExact(report) ==
    \A i \in 1..Len(PlatformOrder) :
        LET p == PlatformOrder[i]
        IN  IssuesNaming(report.critical_issues, p.name) =
                IF p.critical /\ report.platforms[p.id].status # "healthy"
                THEN 1 ELSE 0

\* The same for the services of the report.
ServiceIssuesExact(report) ==
    LET details == report.taskspark3_services.services.details
    IN  \A i \in 1..Len(details) :
            IssuesNaming(report.critical_issues, details[i].service) =
                IF details[i].critical /\ details[i].status # "healthy"
                THEN 1 ELSE 0

\* C18: the list of critical issues of a health report holds exactly one
\* description for every critical platform or service of the report whose
\* status is not "healthy", and none for one that is healthy or not critical.
C18_OneIssuePerCriticalFailure ==
    \A c \in Reported :
        /\ PlatformIssuesExact(call[c].report)
        /\ ServiceIssuesExact(call[c].report)

\* The clients whose run of the integration check has ended.
IntegrationRuns ==
    { c \in Clients : call[c].op = "integration_main" /\ call[c].pc = "done" }

\* The percentage, in hundredths of a percent, is healthy / total * 100
\* rounded to two decimals, and lies between 0 and 100.
PercentageRounded(services) ==
    /\ services.percentage \in 0..10000
    /\ 2 * services.percentage * services.total
          <= 20000 * services.healthy + services.total
    /\ 2 * services.percentage * services.total
          >= 20000 * services.healthy - services.total

C20_RecommendationsNeverEmpty ==
    \A c \in Reported :
        call[c].report.taskspark3_services.recommendations # << >>

\* A report in which no service is down, the database is healthy and a
\* service answered with a non-success status: none of the three messages
\* applies and the list holds the closing default alone.
C20_Witness ==
    \E c \in Reported :
        LET ts3 == call[c].report.taskspark3_services
        IN  /\ ServicesDown(call[c]) = { }
            /\ ts3.database.status = "healthy"
            /\ ts3.services.healthy < ts3.services.total
            /\ Len(ts3.recommendations) = 1
            /\ ts3.recommendations[1].about = "system operating normally"

\* The positions of the list of recommendations that hold a message of the
\* level about the service.
MessagesAbout(recommendations, level, service) ==
    { j \in 1..Len(recommendations) :
        /\ recommendations[j].level = level
        /\ recommendations[j].about = service }

\* The positions that hold a message about a service that is down.
DownMessages(recommendations, level) ==
    { j \in 1..Len(recommendations) :
        /\ recommendations[j].level = level
        /\ recommendations[j].about # "database" }

\* C21: the recommendations of a report hold exactly one message per down
\* service, worded CRITICAL for a critical service and Warning for one that
\* is not, none for a service that is not down, and every CRITICAL message
\* of a down service stands before every Warning message.
C21_CriticalDownFirst ==
    \A c \in Reported :
        LET ts3 == call[c].report.taskspark3_services
            recs == ts3.recommendations
            details == ts3.services.details
        IN  /\ \A i \in 1..Len(details) :
                  LET n_critical == Cardinality(MessagesAbout(recs, "CRITICAL",
                                                    details[i].service))
                      n_warning == Cardinality(MessagesAbout(recs, "Warning",
                                                    details[i].service))
                  IN  /\ n_critical = IF details[i].status = "down"
                                         /\ details[i].critical THEN 1 ELSE 0
                      /\ n_warning = IF details[i].status = "down"
                                        /\ ~details[i].critical THEN 1 ELSE 0
            /\ \A j \in DownMessages(recs, "CRITICAL"),
                  k \in DownMessages(recs, "Warning") : j < k

\* The positions of the list of recommendations that hold a positive message.
PositiveMessages(recommendations) ==
    { j \in 1..Len(recommendations) : recommendations[j].level = "OK" }

\* C22: the recommendations of a report hold a positive message exactly when
\* there is no issue, every service being healthy and the database too; they
\* hold one such message at most, and none beside a problem of a service or
\* of the database.
C22_PositiveOnlyWithoutIssues ==
    \A c \in Reported :
        LET ts3 == call[c].report.taskspark3_services
            no_issue == /\ ts3.services.healthy = ts3.services.total
                        /\ ts3.database.status = "healthy"
        IN  Cardinality(PositiveMessages(ts3.recommendations)) =
                IF no_issue THEN 1 ELSE 0

\* C23: the text of a transport error is cut to 100 characters wherever a
\* report publishes it: in the entry of a service that is down and in the
\* message of a critical issue.
C23_ErrorTextBounded ==
    \A c \in Reported :
        LET report == call[c].report
            details == report.taskspark3_services.services.details
        IN  /\ \A i \in 1..Len(details) :
                  details[i].error_chars <= ErrorTextLimit
            /\ \A j \in 1..Len(report.critical_issues) :
                  report.critical_issues[j].error_chars <= ErrorTextLimit

\* The positions of the table whose rows pass the filters of the frame.
Matching(frame) ==
    { i \in 1..Len(audit_logs) :
        MatchesFilters(audit_logs[i], frame.action, frame.target_type) }

\* The clients whose query of the kind has returned.
Queried(op) ==
    { c \in Clients : call[c].op = op /\ call[c].pc = "done" }

\* C24: a query of the audit log returns at most limit entries, each a row of
\* the table that passes the filters given, newest first, and no matching row
\* newer than a returned one is left out; a query that did not fail returns
\* as many of the matching rows as the limit allows.
C24_NewestMatchingFirst ==
    /\ \A c \in Queried("get_audit_logs") :
          LET logs == call[c].logs
              times == { logs[k].created_at : k \in 1..Len(logs) }
          IN  /\ Len(logs) <= call[c].limit
              /\ call[c].result = "ok" =>
                    Len(logs) = Min(call[c].limit,
                                    Cardinality(Matching(call[c])))
              /\ times \subseteq Matching(call[c])
              /\ \A k \in 1..Len(logs) :
                    logs[k].row = audit_logs[logs[k].created_at]
              /\ \A k \in 1..(Len(logs) - 1) :
                    logs[k].created_at > logs[k + 1].created_at
              /\ \A i \in Matching(call[c]) :
                    (\E t \in times : i > t) => i \in times
    /\ \A c \in Queried("get_recent_audit_logs") :
          LET logs == call[c].logs
          IN  /\ Len(logs) <= call[c].limit
              /\ call[c].audit = "ok" =>
                    Len(logs) = Min(call[c].limit, Len(audit_logs))
              /\ Len(logs) <= Len(audit_logs)
              /\ \A k \in 1..Len(logs) :
                    logs[k] = audit_logs[Len(audit_logs) + 1 - k]

\* A filtered query has returned as many rows as its limit allows, has left
\* an older matching row out and has skipped a newer row that does not match.
C24_Witness ==
    \E c \in Queried("get_audit_logs") :
        /\ call[c].action # ""
        /\ Len(call[c].logs) = call[c].limit
        /\ call[c].limit > 0
        /\ Cardinality(Matching(call[c])) > call[c].limit
        /\ Len(audit_logs) \notin Matching(call[c])

\* The loops whose task has been asked to stop.
StopRequested == { l \in Scheduled : loop[l].cancel }

C26_NoConnectionAcrossSleep ==
    \A l \in Scheduled : loop[l].pc = "sleep" => ~loop[l].conn_open

\* The health loop sleeps after a cycle whose health check returned.
HealthCycleDone ==
    /\ loop["health"].pc = "sleep"
    /\ loop["health"].last = "ok"

\* The last row of the table is the critical alert for the issues.
AlertIsLastRow(issues) ==
    /\ audit_logs # << >>
    /\ audit_logs[Len(audit_logs)].action = "critical_alert_triggered"
    /\ audit_logs[Len(audit_logs)].metadata.issues = issues

\* C27 as the specification words it: a health cycle has appended one
\* critical_alert_triggered row exactly when its report listed critical
\* issues, none otherwise, and the row stands right after the
\* health_check_completed row of the cycle.
C27_AlertIffCriticalIssues ==
    HealthCycleDone =>
        /\ loop["health"].alerts =
              (IF loop["health"].issues # << >> THEN 1 ELSE 0)
        /\ loop["health"].alerts = 1 =>
              /\ AlertIsLastRow(loop["health"].issues)
              /\ Len(audit_logs) >= 2
              /\ audit_logs[Len(audit_logs) - 1].action = "health_check_completed"

\* C27 as the code has it: a health cycle has appended one
\* critical_alert_triggered row, for the issues of its report, when the
\* report listed critical issues and the audit write succeeded, and none when
\* the list was empty (no write is attempted) or the write failed; the row is
\* appended by the step that follows the health check of the cycle, by no
\* other.
C27_AlertIffAuditedCriticalIssues ==
    /\ [](HealthCycleDone =>
             LET issues == loop["health"].issues
                 written == loop["health"].audit = "ok"
             IN  /\ loop["health"].alerts =
                       (IF issues # << >> /\ written THEN 1 ELSE 0)
                 /\ issues = << >> => loop["health"].audit = "none"
                 /\ loop["health"].alerts = 1 => AlertIsLastRow(issues))
    /\ [][(\E i \in 1..Len(audit_logs') :
              /\ i > Len(audit_logs)
              /\ audit_logs'[i].action = "critical_alert_triggered")
          => (loop["health"].pc = "alert" /\ loop["health"].issues # << >>)]_vars

\* A cycle whose report listed a critical issue has written its
\* health_check_completed row and then its one alert row.
C27_Witness ==
    /\ HealthCycleDone
    /\ loop["health"].issues # << >>
    /\ loop["health"].alerts = 1
    /\ Len(audit_logs) >= 2
    /\ audit_logs[Len(audit_logs) - 1].action = "health_check_completed"
    /\ AlertIsLastRow(loop["health"].issues)

\* C28: every platform entry of a health report is fresh: its last_check is
\* the time of the check that made the report, whatever the probe of the
\* platform gave, never the time of an earlier check and never empty.
C28_EntriesFresh ==
    \A c \in Reported :
        \A p \in DOMAIN call[c].report.platforms :
            call[c].report.platforms[p].last_check = call[c].report.timestamp

\* C29: a health check returns a report whatever the state of the database:
\* no failure of the pool, of the database check or of the default-data
\* step reaches the caller of a health check or of the dashboard, and a
\* database that is not healthy shows in the report as status "unhealthy"
\* with a recommendation about the database.
C29_ReportDespiteDatabase ==
    \A c \in Checked :
        /\ call[c].result # "error"
        /\ call[c].report # None
        /\ LET ts3 == call[c].report.taskspark3_services
           IN  ts3.database.status # "healthy" =>
                   /\ ts3.database.status = "unhealthy"
                   /\ MessagesAbout(ts3.recommendations, "CRITICAL",
                                    "database") # { }

\* C30: with two health checks in flight every report is consistent with
\* itself: the status it lists for a platform is what its own probe of the
\* platform gave, and its ecosystem status is "critical" exactly when it lists
\* a critical platform whose status is not "healthy".
C30_ReportsConsistent ==
    \A c \in Reported :
        LET report == call[c].report
        IN  /\ \A i \in 1..Len(PlatformOrder) :
                  report.platforms[PlatformOrder[i].id].status
                      = PlatformStatus(call[c].probes[i].kind)
            /\ report.ecosystem_status = "critical" <=>
                  \E i \in 1..Len(PlatformOrder) :
                      /\ PlatformOrder[i].critical
                      /\ report.platforms[PlatformOrder[i].id].status # "healthy"

\* The rows of the table that record a change of the flag under the key.
FlagRows(key) ==
    { i \in 1..Len(audit_logs) :
        /\ audit_logs[i].action = "feature_flag_changed"
        /\ audit_logs[i].target_id = key }

\* The newest row that records a change of the flag under the key.
NewestFlagRow(key) ==
    audit_logs[CHOOSE i \in FlagRows(key) : \A j \in FlagRows(key) : j <= i]

\* Every call made so far has returned, and every set_feature_flag among them
\* has written its audit row (each client has made one call at most, so the
\* frames show every call).
FlagCallsAudited ==
    \A c \in Clients :
        /\ call[c].n <= 1
        /\ call[c].pc # "audit"
        /\ call[c].op = "set_feature_flag" => call[c].audit = "ok"

\* C31: the audit trail agrees with the flag state under concurrency: once
\* concurrent set_feature_flag calls on a key have all returned with their
\* audit rows written, the newest feature_flag_changed row of the key records
\* the enabled value the stored flag has.
C31_AuditAgreesWithFlag ==
    FlagCallsAudited =>
        \A key \in Targets("feature_flag_changed") :
            NewestFlagRow(key).metadata.enabled = feature_flags[key].enabled

\* C32: flags are keyed by the pair (platform id, feature name): a call of
\* set_feature_flag for one pair leaves the flag of every other pair as it
\* was, stored or not stored, for all platform ids and feature names.
C32_FlagsKeyedByPair ==
    [][\A c \in SettingFlag :
          \A p \in PlatformInputs, f \in FeatureInputs :
              << p, f >> # << call'[c].platform_id, call'[c].feature >> =>
                  LET key == FlagKey(p, f)
                  IN  /\ key \in DOMAIN feature_flags'
                            <=> key \in DOMAIN feature_flags
                      /\ key \in DOMAIN feature_flags =>
                            feature_flags'[key] = feature_flags[key]]_vars

\* C33: at most one database connection pool created by SystemIntegration is
\* open at any time, however many health checks have run.
C33_AtMostOnePool == db_pools <= 1

\* The clients whose call in the step is moderate_content with action vault,
\* for the queue item, by an admin or moderator that may not move a post to
\* the vault.
VaultDenied ==
    { c \in Clients :
        /\ call'[c].n = call[c].n + 1
        /\ call'[c].op = "moderate_content"
        /\ call'[c].action = "vault"
        /\ call'[c].queue_item_id = "q1"
        /\ call'[c].moderator_id \in DOMAIN Users
        /\ Users[call'[c].moderator_id].user_type \in { "admin", "moderator" }
        /\ ~(/\ Users[call'[c].moderator_id].user_type = "admin"
             /\ Users[call'[c].moderator_id].vault_access) }

\* C34: moderate_content with action vault, called by a moderator who lacks
\* vault access, fails with a 403 error and leaves the queue item as it was:
\* its status, assignee, review time and notes are changed neither in the
\* committed rows nor in the Session, and no audit row is added.
C34_VaultDeniedLeavesItem ==
    [][\A c \in VaultDenied :
          /\ call'[c].result = "HTTP403"
          /\ admin_db'.committed = admin_db.committed
          /\ admin_db'.session.item = admin_db.session.item
          /\ admin_db'.session.audit = admin_db.session.audit]_vars

=============================================================================
